---- MODULE Spec2Model ----
(***************************************************************************)
(* Model of enterprython/_inject.py: the component registry                *)
(* (ENTERPRYTHON_COMPONENTS), the component decorator and assemble.        *)
(* A call of assemble is one step; its recursion is a recursive operator   *)
(* that threads the registry, the count of constructed objects and a log   *)
(* of what the call did.                                                   *)
(***************************************************************************)
EXTENDS Integers, Sequences, FiniteSets, TLC

\* ---------------------------------------------------------------- bounds
\* Number of objects the constructors may create in one behaviour.
MaxObjects == 3
\* Depth of nested assemble calls the interpreter allows (recursion limit).
MaxDepth == 3

\* ------------------------------------------------------------- utilities
Range(s) == {s[i] : i \in DOMAIN s}

Indices(s) == [i \in 1..Len(s) |-> i]

\* An object: its identity, its class and the arguments it was built with.
Object(id, cls, args) == [id |-> id, cls |-> cls, args |-> args]

NoArgs == <<>>

\* Python's None, and the object a caller passes as a keyword argument.
None == Object(0, "NoneType", NoArgs)
Manual == Object(-1, "Manual", NoArgs)

\* ------------------------------------------- the classes of the program
\* The classes the calls are made with: an abstract interface, a concrete
\* base with two implementations, a chain Layer1 -> Layer2 -> SA, and two
\* clients that are never decorated.
Classes ==
  {"ServiceInterface", "I", "SA", "SB", "Layer2", "Layer1", "Client", "ClientAll"}

\* The classes the program decorates with @component.
Decorated == {"ServiceInterface", "I", "SA", "SB", "Layer2"}

\* inspect.isabstract
isabstract(the_type) == the_type = "ServiceInterface"

\* inspect.getmro: the class itself, then its bases, then object.
getmro(the_type) ==
  CASE the_type = "ServiceInterface" -> <<"ServiceInterface", "ABC", "object">>
    [] the_type = "I"  -> <<"I", "object">>
    [] the_type = "SA" -> <<"SA", "I", "object">>
    [] the_type = "SB" -> <<"SB", "I", "ServiceInterface", "ABC", "object">>
    [] OTHER -> <<the_type, "object">>

\* One parameter of a signature: kind is "class" (annotated with a class),
\* "list" (annotated List[type]) or "empty" (no annotation).
Param(name, kind, type, default) ==
  [name |-> name, kind |-> kind, type |-> type, default |-> default]

\* inspect.signature(the_type).parameters without self. Every parameter of
\* these classes is of kind POSITIONAL_OR_KEYWORD.
signature(the_type) ==
  CASE the_type = "I" -> <<Param("peer", "class", "object", FALSE),
                           Param("extra", "empty", "empty", FALSE)>>
    [] the_type = "Layer2" -> <<Param("service", "class", "SA", FALSE)>>
    [] the_type = "Layer1" -> <<Param("service", "class", "Layer2", FALSE),
                                Param("other", "class", "SB", TRUE)>>
    [] the_type = "Client" -> <<Param("service", "class", "I", FALSE),
                                Param("extra", "empty", "empty", FALSE)>>
    [] the_type = "ClientAll" -> <<Param("services", "list", "I", FALSE)>>
    [] OTHER -> <<>>

ParamNames(the_type) == {signature(the_type)[i].name : i \in DOMAIN signature(the_type)}

\* ------------------------------------------------------------ _Component
\* _Component.__init__
NewComponent(the_type, singleton) ==
  [type |-> the_type, singleton |-> singleton,
   base_classes |-> getmro(the_type), instance |-> None]

\* _Component.matches
matches(comp, the_type) == the_type \in Range(comp.base_classes)

\* _get_components: the indices of the matching components, in list order.
get_components(comps, the_type) ==
  SelectSeq(Indices(comps), LAMBDA i : matches(comps[i], the_type))

\* A lookup that takes the first match instead of failing on several.
get_component_first(comps, the_type) ==
  LET found == get_components(comps, the_type)
  IN  [ambiguous |-> FALSE,
       idx |-> IF Len(found) >= 1 THEN found[1] ELSE 0]

\* A lookup that never finds a component.
get_component_none(comps, the_type) ==
  LET found == get_components(comps, the_type)
  IN  [ambiguous |-> Len(found) > 1, idx |-> 0]

\* _get_component: ambiguous when more than one matches, else the index of
\* the one match, or None.
get_component(comps, the_type) ==
  LET found == get_components(comps, the_type)
  IN  [ambiguous |-> Len(found) > 1,
       idx |-> IF Len(found) = 1 THEN found[1] ELSE 0]

\* ----------------------------------------------------------------- values
\* An argument value: one object or a list of objects.
One(ref) == [isList |-> FALSE, refs |-> <<ref>>]
ListOf(refs) == [isList |-> TRUE, refs |-> refs]

\* One entry of the log of a call. kind is "lookup" (_get_component for the
\* requested type, param "", or for a parameter: n matches, comp the one
\* found), "lookup_all" (_get_components for a list parameter: n matches),
\* "construct" (the_type(**arguments) made obj), "set" (the assertion of
\* set_instance_if_singleton is reached for comp, which holds n instances)
\* or "return" (assemble returns obj, n = 0 from the cache of comp and n = 1
\* newly made).
Event(kind, depth, owner, param, type, n, comp, obj) ==
  [kind |-> kind, depth |-> depth, owner |-> owner, param |-> param,
   type |-> type, n |-> n, comp |-> comp, obj |-> obj]

Logged(st, ev) == [st EXCEPT !.log = Append(@, ev)]

\* Outcomes of a call.
Raise(st, err, msg) ==
  [st |-> st, ok |-> FALSE, err |-> err, msg |-> msg, ret |-> None]

Return(st, ref) ==
  [st |-> st, ok |-> TRUE, err |-> "", msg |-> "", ret |-> ref]

\* ----------------------------------------------------------------- calls
\* the_type(**arguments): fails on an abstract class and on a parameter
\* without default that got no argument; otherwise a new object.
Construct(the_type, arguments, st, depth) ==
  LET params == signature(the_type)
      missing == {i \in DOMAIN params :
                    ~params[i].default /\ params[i].name \notin DOMAIN arguments}
      ref == Object(st.allocated + 1, the_type, arguments)
  IN  IF isabstract(the_type)
      THEN Raise(st, "TypeError", "abstract class")
      ELSE IF missing # {}
      THEN Raise(st, "TypeError", "missing argument")
      ELSE Return(Logged([st EXCEPT !.allocated = @ + 1],
                         Event("construct", depth, the_type, "", the_type, 0, 0, ref)),
                  ref)

\* A set_instance_if_singleton that forgets the instance.
set_instance_never(st, idx, ref, depth) == Return(st, ref)

\* _Component.set_instance_if_singleton
set_instance_if_singleton(st, idx, ref, depth) ==
  LET comp == st.comps[idx]
      st1 == Logged(st, Event("set", depth, comp.type, "", comp.type,
                              IF comp.instance = None THEN 0 ELSE 1, idx, ref))
  IN  IF comp.singleton
      THEN IF comp.instance # None
           THEN Raise(st1, "AssertionError", "instance is not None")
           ELSE Return([st1 EXCEPT !.comps[idx].instance = ref], ref)
      ELSE Return(st, ref)

\* _Component.get_instance: asserts that only a singleton holds an instance.
get_instance(comp) ==
  [ok |-> comp.singleton \/ comp.instance = None, instance |-> comp.instance]

RECURSIVE assemble(_, _, _, _)
RECURSIVE assemble_each(_, _, _, _, _)
RECURSIVE resolve(_, _, _, _, _, _)

\* list(map(assemble, types)): assemble each type in order; the first
\* failure ends the call.
assemble_each(types, j, refs, st, depth) ==
  IF j > Len(types)
  THEN [st |-> st, ok |-> TRUE, err |-> "", msg |-> "", refs |-> refs]
  ELSE LET r == assemble(types[j], NoArgs, st, depth)
       IN  IF ~r.ok
           THEN [st |-> r.st, ok |-> FALSE, err |-> r.err, msg |-> r.msg, refs |-> refs]
           ELSE assemble_each(types, j + 1, Append(refs, r.ret), r.st, depth)

\* The loop of assemble over the parameters, from parameter i on.
resolve(the_type, i, arguments, st, depth, params) ==
  IF i > Len(params)
  THEN [st |-> st, ok |-> TRUE, err |-> "", msg |-> "", arguments |-> arguments]
  ELSE
    LET p == params[i]
    IN  IF p.kind = "list"
        THEN LET found == get_components(st.comps, p.type)
                 types == [k \in DOMAIN found |-> st.comps[found[k]].type]
                 st1 == Logged(st, Event("lookup_all", depth, the_type, p.name,
                                         p.type, Len(found), 0, None))
                 r == assemble_each(types, 1, <<>>, st1, depth + 1)
             IN  IF ~r.ok
                 THEN [st |-> r.st, ok |-> FALSE, err |-> r.err, msg |-> r.msg,
                       arguments |-> arguments]
                 ELSE resolve(the_type, i + 1,
                              (p.name :> ListOf(r.refs)) @@ arguments,
                              r.st, depth, params)
        ELSE LET found == get_component(st.comps, p.type)
                 st1 == Logged(st, Event("lookup", depth, the_type, p.name, p.type,
                                         Len(get_components(st.comps, p.type)),
                                         found.idx, None))
             IN  IF found.ambiguous
                 THEN [st |-> st1, ok |-> FALSE, err |-> "TypeError",
                       msg |-> "Ambiguous dependency", arguments |-> arguments]
                 ELSE IF found.idx = 0
                 THEN resolve(the_type, i + 1, arguments, st1, depth, params)
                 ELSE LET r == assemble(st1.comps[found.idx].type, NoArgs, st1, depth + 1)
                      IN  IF ~r.ok
                          THEN [st |-> r.st, ok |-> FALSE, err |-> r.err,
                                msg |-> r.msg, arguments |-> arguments]
                          ELSE resolve(the_type, i + 1,
                                       (p.name :> One(r.ret)) @@ arguments,
                                       r.st, depth, params)

\* assemble(the_type, **kwargs)
assemble(the_type, kwargs, st, depth) ==
  IF depth > MaxDepth
  THEN Raise(st, "RecursionError", "maximum recursion depth exceeded")
  ELSE
    LET stored == get_component(st.comps, the_type)
        st1 == Logged(st, Event("lookup", depth, the_type, "", the_type,
                                Len(get_components(st.comps, the_type)),
                                stored.idx, None))
    IN  IF stored.ambiguous
        THEN Raise(st1, "TypeError", "Ambiguous dependency")
        ELSE IF stored.idx # 0 /\ ~get_instance(st1.comps[stored.idx]).ok
        THEN Raise(st1, "AssertionError", "instance of a non-singleton")
        ELSE IF stored.idx # 0 /\ get_instance(st1.comps[stored.idx]).instance # None
        THEN Return(Logged(st1, Event("return", depth, the_type, "", the_type, 0,
                                      stored.idx,
                                      get_instance(st1.comps[stored.idx]).instance)),
                    get_instance(st1.comps[stored.idx]).instance)
        ELSE
          LET a == resolve(the_type, 1, kwargs, st1, depth, signature(the_type))
          IN  IF ~a.ok
              THEN Raise(a.st, a.err, a.msg)
              ELSE
                LET c == Construct(the_type, a.arguments, a.st, depth)
                IN  IF ~c.ok
                    THEN c
                    ELSE IF stored.idx = 0
                    THEN Return(Logged(c.st, Event("return", depth, the_type, "",
                                                   the_type, 1, 0, c.ret)),
                                c.ret)
                    ELSE
                      LET s == set_instance_if_singleton(c.st, stored.idx, c.ret, depth)
                      IN  IF ~s.ok
                          THEN s
                          ELSE Return(Logged(s.st, Event("return", depth, the_type, "",
                                                         the_type, 1, stored.idx, c.ret)),
                                      c.ret)

\* An _add_component without the lookup.
add_component_unchecked(comps, the_type, singleton) ==
  [comps |-> Append(comps, NewComponent(the_type, singleton)),
   ok |-> TRUE, err |-> "", msg |-> ""]

\* _add_component: the lookup of the type may itself fail as ambiguous.
add_component(comps, the_type, singleton) ==
  LET found == get_component(comps, the_type)
  IN  IF found.ambiguous
      THEN [comps |-> comps, ok |-> FALSE, err |-> "TypeError",
            msg |-> "Ambiguous dependency"]
      ELSE IF found.idx # 0
      THEN [comps |-> comps, ok |-> FALSE, err |-> "TypeError",
            msg |-> "already registered as component"]
      ELSE [comps |-> Append(comps, NewComponent(the_type, singleton)),
            ok |-> TRUE, err |-> "", msg |-> ""]

\* component(singleton)(the_type)
register(comps, the_type, singleton) ==
  IF isabstract(the_type)
  THEN [comps |-> comps, ok |-> FALSE, err |-> "TypeError",
        msg |-> "Can not register abstract class as component"]
  ELSE add_component(comps, the_type, singleton)

\* ------------------------------------------------------------------ state
VARIABLES
  components,   \* ENTERPRYTHON_COMPONENTS
  allocated,    \* the number of objects constructed so far
  lastCall,     \* the last call made, its outcome and its log
  stack         \* the frames of the assemble call that is running

vars == <<components, allocated, lastCall, stack>>

Call(op, the_type, singleton, kwargs, ok, err, msg, ret, log) ==
  [op |-> op, the_type |-> the_type, singleton |-> singleton, kwargs |-> kwargs,
   ok |-> ok, err |-> err, msg |-> msg, ret |-> ret, log |-> log]

NoCall == Call("none", "", FALSE, {}, TRUE, "", "", None, <<>>)

Init ==
  /\ components = <<>>
  /\ allocated = 0
  /\ lastCall = NoCall
  /\ stack = <<>>

\* @component(singleton) applied to the_type
Register(the_type, singleton) ==
  LET r == register(components, the_type, singleton)
  IN  /\ lastCall = NoCall
      /\ components' = r.comps
      /\ lastCall' = Call("register", the_type, singleton, {}, r.ok, r.err, r.msg,
                          None, <<>>)
      /\ UNCHANGED <<allocated, stack>>

\* assemble(the_type, **{name: Manual for name in names})
Assemble(the_type, names) ==
  LET kwargs == [n \in names |-> One(Manual)]
      st == [comps |-> components, allocated |-> allocated, log |-> <<>>]
      r == assemble(the_type, kwargs, st, 0)
  IN  /\ lastCall = NoCall
      /\ r.st.allocated <= MaxObjects
      /\ components' = r.st.comps
      /\ allocated' = r.st.allocated
      /\ lastCall' = Call("assemble", the_type, FALSE, names, r.ok, r.err, r.msg,
                          r.ret, r.st.log)
      /\ UNCHANGED stack

\* The caller is done with the outcome of its last call and goes on.
Continue ==
  /\ lastCall # NoCall
  /\ stack = <<>>
  /\ lastCall' = NoCall
  /\ UNCHANGED <<components, allocated, stack>>

Next ==
  \/ \E the_type \in Decorated, singleton \in BOOLEAN : Register(the_type, singleton)
  \/ \E the_type \in Classes : \E names \in SUBSET ParamNames(the_type) :
       Assemble(the_type, names)
  \/ Continue

Spec == Init /\ [][Next]_vars

\* ------------------------------------------------- the call, step by step
\* One frame of the recursion of assemble: pc is "enter" before the lookup of
\* the provider of the requested type, "params" in the loop over the
\* parameters and "list" inside list(map(assemble, ...)) of a list parameter.
Frame(the_type, arguments) ==
  [type |-> the_type, pc |-> "enter", stored |-> 0, i |-> 1,
   arguments |-> arguments, types |-> <<>>, refs |-> <<>>]

Top == stack[Len(stack)]

Depth == Len(stack) - 1

Here == [comps |-> components, allocated |-> allocated, log |-> lastCall.log]

Running == lastCall.op = "running"

\* A step that leaves the frames stk.
Go(st, stk) ==
  /\ components' = st.comps
  /\ allocated' = st.allocated
  /\ stack' = stk
  /\ lastCall' = [lastCall EXCEPT !.log = st.log]

\* The top frame becomes f.
GoTop(st, f) == Go(st, [stack EXCEPT ![Len(stack)] = f])

\* A nested assemble(the_type) is called.
Push(st, the_type) == Go(st, Append(stack, Frame(the_type, NoArgs)))

\* An exception is caught nowhere: it unwinds every frame and reaches the
\* caller of the first one.
Unwind(st, err, msg) ==
  /\ components' = st.comps
  /\ allocated' = st.allocated
  /\ stack' = <<>>
  /\ lastCall' = [lastCall EXCEPT !.op = "assemble", !.ok = FALSE, !.err = err,
                                  !.msg = msg, !.log = st.log]

\* The top frame returns ref: to the caller when it is the first frame, else
\* into the frame below, which binds it to the parameter it is resolving.
Deliver(st, ref) ==
  LET rest == SubSeq(stack, 1, Len(stack) - 1)
  IN  IF rest = <<>>
      THEN /\ components' = st.comps
           /\ allocated' = st.allocated
           /\ stack' = <<>>
           /\ lastCall' = [lastCall EXCEPT !.op = "assemble", !.ret = ref,
                                           !.log = st.log]
      ELSE LET f == rest[Len(rest)]
               p == signature(f.type)[f.i]
               g == IF f.pc = "list"
                    THEN [f EXCEPT !.refs = Append(@, ref), !.types = Tail(@)]
                    ELSE [f EXCEPT !.arguments = (p.name :> One(ref)) @@ @,
                                   !.i = @ + 1]
           IN  Go(st, [rest EXCEPT ![Len(rest)] = g])

\* The parameters of a type that carry no annotation: injection has nothing
\* for them, so they are the ones a caller passes by keyword.
Untyped(the_type) ==
  {signature(the_type)[i].name :
     i \in {k \in DOMAIN signature(the_type) : signature(the_type)[k].kind = "empty"}}

\* assemble(the_type, **kwargs) is called.
Start(the_type, names) ==
  LET kwargs == [n \in names |-> One(Manual)]
      st == [comps |-> components, allocated |-> allocated, log |-> <<>>]
  IN  /\ lastCall = NoCall
      /\ assemble(the_type, kwargs, st, 0).st.allocated <= MaxObjects
      /\ stack' = <<Frame(the_type, kwargs)>>
      /\ lastCall' = Call("running", the_type, FALSE, names, TRUE, "", "", None, <<>>)
      /\ UNCHANGED <<components, allocated>>

\* The top frame looks up the provider of its type and returns the
\* instance its cache holds.
Enter ==
  /\ Running /\ Top.pc = "enter"
  /\ IF Depth > MaxDepth
     THEN Unwind(Here, "RecursionError", "maximum recursion depth exceeded")
     ELSE
       LET stored == get_component(components, Top.type)
           st1 == Logged(Here, Event("lookup", Depth, Top.type, "", Top.type,
                                     Len(get_components(components, Top.type)),
                                     stored.idx, None))
       IN  IF stored.ambiguous
           THEN Unwind(st1, "TypeError", "Ambiguous dependency")
           ELSE IF stored.idx # 0 /\ ~get_instance(components[stored.idx]).ok
           THEN Unwind(st1, "AssertionError", "instance of a non-singleton")
           ELSE IF stored.idx # 0 /\ get_instance(components[stored.idx]).instance # None
           THEN Deliver(Logged(st1, Event("return", Depth, Top.type, "", Top.type, 0,
                                          stored.idx,
                                          get_instance(components[stored.idx]).instance)),
                        get_instance(components[stored.idx]).instance)
           ELSE GoTop(st1, [Top EXCEPT !.pc = "params", !.stored = stored.idx])

\* The top frame takes the next parameter of its loop.
ResolveParam ==
  /\ Running /\ Top.pc = "params" /\ Top.i <= Len(signature(Top.type))
  /\ LET p == signature(Top.type)[Top.i]
     IN  IF p.kind = "list"
         THEN LET found == get_components(components, p.type)
                  types == [k \in DOMAIN found |-> components[found[k]].type]
              IN  GoTop(Logged(Here, Event("lookup_all", Depth, Top.type, p.name,
                                           p.type, Len(found), 0, None)),
                        [Top EXCEPT !.pc = "list", !.types = types, !.refs = <<>>])
         ELSE LET found == get_component(components, p.type)
                  st1 == Logged(Here, Event("lookup", Depth, Top.type, p.name, p.type,
                                            Len(get_components(components, p.type)),
                                            found.idx, None))
              IN  IF found.ambiguous
                  THEN Unwind(st1, "TypeError", "Ambiguous dependency")
                  ELSE IF found.idx = 0
                  THEN GoTop(st1, [Top EXCEPT !.i = @ + 1])
                  ELSE Push(st1, components[found.idx].type)

\* The top frame is inside list(map(assemble, ...)): it assembles the next
\* type or binds the list.
ListStep ==
  /\ Running /\ Top.pc = "list"
  /\ IF Top.types = <<>>
     THEN LET p == signature(Top.type)[Top.i]
          IN  GoTop(Here, [Top EXCEPT !.pc = "params", !.i = @ + 1,
                                      !.arguments = (p.name :> ListOf(Top.refs)) @@ @])
     ELSE Push(Here, Head(Top.types))

\* The loop of the top frame is over: it calls the_type(**arguments), stores
\* the result in the provider found and returns it.
Finish ==
  /\ Running /\ Top.pc = "params" /\ Top.i > Len(signature(Top.type))
  /\ LET c == Construct(Top.type, Top.arguments, Here, Depth)
     IN  IF ~c.ok
         THEN Unwind(c.st, c.err, c.msg)
         ELSE IF Top.stored = 0
         THEN Deliver(Logged(c.st, Event("return", Depth, Top.type, "", Top.type, 1,
                                         0, c.ret)),
                      c.ret)
         ELSE LET s == set_instance_if_singleton(c.st, Top.stored, c.ret, Depth)
              IN  IF ~s.ok
                  THEN Unwind(s.st, s.err, s.msg)
                  ELSE Deliver(Logged(s.st, Event("return", Depth, Top.type, "",
                                                  Top.type, 1, Top.stored, c.ret)),
                               c.ret)

\* One step of the running call.
Step == Enter \/ ResolveParam \/ ListStep \/ Finish

NextSteps ==
  \/ \E the_type \in Decorated, singleton \in BOOLEAN : Register(the_type, singleton)
  \/ \E the_type \in Classes : \E names \in SUBSET Untyped(the_type) :
       Start(the_type, names)
  \/ Enter
  \/ ResolveParam
  \/ ListStep
  \/ Finish
  \/ Continue

\* The interpreter is single-threaded and a call never waits: the running
\* call always takes its next step.
SpecSteps == Init /\ [][NextSteps]_vars /\ WF_vars(Step)

\* ----------------------------------------------------------------- claims
Log == lastCall.log

IsAssemble == lastCall.op = "assemble"

\* The keyword arguments of the frame at a depth: only the caller's call has any.
FrameKwargs(depth) == IF depth = 0 THEN lastCall.kwargs ELSE {}

\* The registered providers whose ancestor set contains a type.
Providers(type) == {k \in DOMAIN components : type \in Range(getmro(components[k].type))}

\* C1 (singleton identity): every assemble call that resolves a singleton
\* provider obtains the instance its cache holds after the call, which is the
\* instance the cache held before the call if it held one, and a cached
\* instance never changes; every resolution of a non-singleton provider obtains
\* an object made during the call, different from the object of every other
\* resolution. So two resolutions of a singleton give the identical instance
\* and two resolutions of a non-singleton give distinct ones.
SingletonIdentity ==
  [][
      /\ \A k \in DOMAIN components :
          (components[k].singleton /\ components[k].instance # None)
            => components'[k].instance = components[k].instance
      /\ lastCall'.op = "assemble" =>
           \A i \in DOMAIN lastCall'.log :
             LET e == lastCall'.log[i]
             IN  (e.kind = "return" /\ e.comp # 0) =>
                   IF components[e.comp].singleton
                   THEN /\ e.obj = components'[e.comp].instance
                        /\ (components[e.comp].instance # None
                             => e.obj = components[e.comp].instance)
                   ELSE /\ e.obj.id > allocated
                        /\ components'[e.comp].instance = None
                        /\ \A j \in DOMAIN lastCall'.log :
                             (j # i /\ lastCall'.log[j].kind = "return")
                               => lastCall'.log[j].obj # e.obj
    ]_vars

\* C1 witness: one call obtained a singleton's instance from its cache and a
\* newly made instance of a non-singleton provider that had been resolved before.
SingletonIdentityWitness ==
  /\ IsAssemble /\ lastCall.ok
  /\ \E i \in DOMAIN Log :
       /\ Log[i].kind = "return" /\ Log[i].comp # 0 /\ Log[i].n = 0
       /\ components[Log[i].comp].singleton
  /\ \E j \in DOMAIN Log :
       /\ Log[j].kind = "return" /\ Log[j].comp # 0 /\ Log[j].n = 1
       /\ ~components[Log[j].comp].singleton
       /\ Log[j].obj.id > 1

\* C2 (override precedence), as claimed: for every parameter named in the
\* keyword arguments of a call that does not run into the recursion limit,
\* no lookup finds a provider for it and the constructor receives the
\* caller's value.
OverridePrecedence ==
  (IsAssemble /\ lastCall.err # "RecursionError") =>
    \A name \in lastCall.kwargs :
      /\ \A i \in DOMAIN Log :
           (Log[i].kind \in {"lookup", "lookup_all"} /\ Log[i].depth = 0
              /\ Log[i].param = name)
             => Log[i].n = 0
      /\ \A i \in DOMAIN Log :
           (Log[i].kind = "construct" /\ Log[i].depth = 0)
             => Log[i].obj.args[name] = One(Manual)

\* C3 (default precedence): whenever a constructor is invoked, each of its
\* parameters that has a default and no caller override is bound to the
\* instance the nested assemble of the one matching provider returned when
\* exactly one provider matches its declared type, and is left to its default
\* exactly when no provider matches.
DefaultPrecedence ==
  IsAssemble =>
    \A i \in DOMAIN Log : Log[i].kind = "construct" =>
      LET e == Log[i]
          params == signature(e.owner)
      IN  \A k \in DOMAIN params :
            LET p == params[k]
                found == IF p.kind = "class" THEN Providers(p.type) ELSE {}
            IN  (p.default /\ p.name \notin FrameKwargs(e.depth)) =>
                  /\ (Cardinality(found) = 1 =>
                       /\ p.name \in DOMAIN e.obj.args
                       /\ ~e.obj.args[p.name].isList
                       /\ \E j \in 1..i :
                            /\ Log[j].kind = "return"
                            /\ Log[j].depth = e.depth + 1
                            /\ {Log[j].comp} = found
                            /\ Log[j].owner = components[Log[j].comp].type
                            /\ Log[j].obj = e.obj.args[p.name].refs[1])
                  /\ (p.name \notin DOMAIN e.obj.args <=> found = {})

\* C3 witness: Layer1 was constructed without an override of its defaulted
\* parameter other, for whose type SB a provider is registered.
DefaultPrecedenceWitness ==
  /\ IsAssemble /\ lastCall.ok /\ lastCall.the_type = "Layer1"
  /\ "other" \notin lastCall.kwargs
  /\ Providers("SB") # {}
  /\ \E i \in DOMAIN Log : Log[i].kind = "construct" /\ Log[i].owner = "Layer1"
  /\ lastCall.ret.args["other"].refs[1].cls = "SB"

\* C4 (ambiguity detection): a unique lookup, for the requested type or for a
\* parameter's type, that finds more than one provider is the last thing the
\* call does: the call fails with the TypeError "Ambiguous dependency", and
\* nothing is constructed or bound after the lookup.
AmbiguityDetection ==
  IsAssemble =>
    \A i \in DOMAIN Log :
      (Log[i].kind = "lookup" /\ Cardinality(Providers(Log[i].type)) > 1) =>
        /\ i = Len(Log)
        /\ ~lastCall.ok
        /\ lastCall.err = "TypeError"
        /\ lastCall.msg = "Ambiguous dependency"

\* C4 witness: a call looked up a parameter's type that two providers match.
AmbiguityDetectionWitness ==
  /\ IsAssemble
  /\ \E i \in DOMAIN Log :
       /\ Log[i].kind = "lookup" /\ Log[i].param # ""
       /\ Cardinality(Providers(Log[i].type)) > 1

\* C5 (sequence injection), as claimed: a call that reaches a list parameter
\* and does not run into the recursion limit constructs the owner with the
\* parameter bound to one assembled instance per matching provider, in
\* registration order.
SequenceInjection ==
  (IsAssemble /\ lastCall.err # "RecursionError") =>
    \A i \in DOMAIN Log : Log[i].kind = "lookup_all" =>
      LET e == Log[i]
          found == get_components(components, e.type)
      IN  \E c \in i..Len(Log) :
            /\ Log[c].kind = "construct" /\ Log[c].depth = e.depth
            /\ Log[c].owner = e.owner
            /\ e.param \in DOMAIN Log[c].obj.args
            /\ Log[c].obj.args[e.param].isList
            /\ Len(Log[c].obj.args[e.param].refs) = Len(found)
            /\ \A k \in DOMAIN found :
                 \E j \in i..c :
                   /\ Log[j].kind = "return" /\ Log[j].comp = found[k]
                   /\ Log[j].obj = Log[c].obj.args[e.param].refs[k]

DuplicateRegistration ==
  [][(lastCall'.op = "register"
       /\ \E k \in DOMAIN components : components[k].type = lastCall'.the_type) =>
       /\ ~lastCall'.ok
       /\ lastCall'.err = "TypeError"
       /\ ((\A k \in DOMAIN components, j \in DOMAIN components :
              (k # j /\ components[k].type = lastCall'.the_type)
                => lastCall'.the_type \notin Range(getmro(components[j].type)))
            => lastCall'.msg = "already registered as component")
       /\ components' = components
     ]_vars

\* C7 witness: a second registration of a type was rejected while the registry
\* held a cached instance.
DuplicateRegistrationWitness ==
  /\ lastCall.op = "register" /\ ~lastCall.ok
  /\ lastCall.msg = "already registered as component"
  /\ \E k \in DOMAIN components : components[k].type = lastCall.the_type
  /\ \E k \in DOMAIN components : components[k].instance # None

\* C8 (untyped parameter), as claimed: assemble, without keyword arguments,
\* of a type that has a parameter without annotation, when it does not run
\* into the recursion limit, fails with a TypeError, constructs nothing and
\* reaches no singleton cache.
UntypedParameter ==
  (IsAssemble /\ lastCall.kwargs = {} /\ lastCall.err # "RecursionError"
     /\ \E k \in DOMAIN signature(lastCall.the_type) :
                   signature(lastCall.the_type)[k].kind = "empty") =>
    /\ ~lastCall.ok
    /\ lastCall.err = "TypeError"
    /\ \A i \in DOMAIN Log : Log[i].kind \notin {"construct", "set"}

\* C9 (registry uniqueness), as claimed: every type is in the ancestor set of
\* at most one registered provider.
RegistryUniqueness ==
  \A type \in Classes \cup {"object", "ABC"} : Cardinality(Providers(type)) <= 1

\* C9, amended: the type of a registered provider is never in the ancestor
\* set of a provider registered before it; in particular no two providers
\* have the same type.
RegistryOrder ==
  \A j \in DOMAIN components : \A i \in 1..(j - 1) :
    components[j].type \notin Range(components[i].base_classes)

\* C9 witness: after a rejected registration the registry holds two providers
\* whose ancestor sets share a type.
RegistryOrderWitness ==
  /\ lastCall.op = "register" /\ ~lastCall.ok
  /\ lastCall.msg \in {"already registered as component", "Ambiguous dependency"}
  /\ \E type \in Classes : Cardinality(Providers(type)) > 1

\* C10 (write-once singleton cache), as claimed: each time the assertion of
\* set_instance_if_singleton is reached the cache of the component is empty.
WriteOnceCache ==
  IsAssemble =>
    \A i \in DOMAIN Log : Log[i].kind = "set" => Log[i].n = 0

\* C11 (provider invocation on a supertype request), as claimed: the instance
\* a call newly makes for the provider it found is an instance of that
\* provider's own type, made from the parameters of that type, and the cache
\* of a provider only ever holds an instance of the provider's own type.
ProviderInvocation ==
  /\ \A k \in DOMAIN components :
       components[k].instance # None
         => components[k].instance.cls = components[k].type
  /\ IsAssemble =>
       \A i \in DOMAIN Log :
         (Log[i].kind = "return" /\ Log[i].comp # 0 /\ Log[i].n = 1)
           => /\ Log[i].obj.cls = components[Log[i].comp].type
              /\ DOMAIN Log[i].obj.args \subseteq
                   ParamNames(components[Log[i].comp].type)

\* Entry i of the log is where an assemble frame starts: the lookup of the
\* provider of the requested type.
FrameStart(i) == Log[i].kind = "lookup" /\ Log[i].param = ""

\* The frame that starts at entry i returned: a return of its depth follows
\* before another frame of that depth starts.
FrameReturned(i) ==
  \E j \in DOMAIN Log :
    /\ j > i /\ Log[j].kind = "return" /\ Log[j].depth = Log[i].depth
    /\ \A m \in (i + 1)..(j - 1) : ~(FrameStart(m) /\ Log[m].depth = Log[i].depth)

\* The frames of the call whose assembly was aborted.
Aborted == {i \in DOMAIN Log : FrameStart(i) /\ ~FrameReturned(i)}

\* C12 (no partial graphs on failure), as claimed: when a call fails with the
\* error of a parameter resolution (an ambiguous dependency or a parameter
\* left without argument), the caller gets the error and no instance, and
\* the cache of the provider of every type whose assembly was aborted holds
\* no instance.
NoPartialGraphs ==
  (IsAssemble /\ lastCall.err \notin {"AssertionError", "RecursionError"}) =>
    \A i \in Aborted :
      /\ ~lastCall.ok /\ lastCall.err = "TypeError" /\ lastCall.ret = None
      /\ (Log[i].comp # 0 => components[Log[i].comp].instance = None)

\* The types the frame of a type calls assemble with: for each parameter of
\* its signature, the type of the one provider of the declared type, or of
\* every provider when the parameter is a list.
Calls(type) ==
  UNION {LET p == signature(type)[i]
         IN  IF p.kind = "list" \/ Cardinality(Providers(p.type)) = 1
             THEN {components[k].type : k \in Providers(p.type)}
             ELSE {} : i \in DOMAIN signature(type)}

RECURSIVE Closure(_, _)
\* The types reached from the types S in at most n calls.
Closure(S, n) ==
  IF n = 0 THEN S ELSE Closure(S \cup UNION {Calls(t) : t \in S}, n - 1)

\* A cycle of providers is reachable from a type through parameter-type
\* matching. Every call but the first is made with the type of a provider,
\* so as many calls as there are providers reach all there is to reach.
CycleFrom(type) ==
  \E t \in Closure({type}, Len(components)) :
    t \in Closure(Calls(t), Len(components))

\* C13 (termination): a call assemble(T) runs into the limit of the
\* recursion only when a cycle of providers is reachable from T, and a
\* running call from whose type no such cycle is reachable eventually
\* completes, with an instance or with an error other than that of
\* unbounded recursion.
Termination ==
  /\ []((IsAssemble /\ lastCall.err = "RecursionError")
          => CycleFrom(lastCall.the_type))
  /\ (Running /\ ~CycleFrom(lastCall.the_type))
       ~> (IsAssemble /\ stack = <<>> /\ lastCall.err # "RecursionError")

\* C13 witness: a call that went three frames deep and stored a singleton
\* on its way, with no cycle reachable from its type, has run step by step
\* and returned its instance.
TerminationWitness ==
  /\ IsAssemble /\ stack = <<>> /\ lastCall.ok
  /\ ~CycleFrom(lastCall.the_type)
  /\ \E i \in DOMAIN Log : Log[i].kind = "return" /\ Log[i].depth = 2 /\ Log[i].n = 1
  /\ \E i \in DOMAIN Log : Log[i].kind = "set" /\ Log[i].depth = 1

====
